---------------------------- MODULE Spec2Model ----------------------------
(***************************************************************************)
(* Model of the pyannote-rs HTTP sidecar                                   *)
(* (desktop/sidecar/pyannote-rs-server/src/main.rs): the diarize handler,  *)
(* its two tokio mutexes (extractor, sessions), the session table with     *)
(* lazy TTL expiry, map_segment_to_track and merge_adjacent_tracks.        *)
(*                                                                         *)
(* Times are integers in milliseconds.  A segment's start/end (f64         *)
(* seconds in the code) is an integer number of half-milliseconds, so that *)
(* `(x * 1000.0).round() as i64` is a real rounding.  Similarities and     *)
(* thresholds (f32 in [0,1]) are integers in hundredths.                   *)
(***************************************************************************)
EXTENDS Integers, Sequences, FiniteSets, TLC

VARIABLES
    now,            \* the system clock read by current_epoch_ms
    sessions,       \* ServerState.sessions: trimmed session id -> SessionState
    extractor,      \* holder of ServerState.extractor's mutex (0: free)
    sessions_lock,  \* holder of ServerState.sessions' mutex (0: free)
    pc,             \* per request: the handler's position
    req,            \* per request: session_id, threshold, max_speakers, window
    segs_left,      \* per request: elements the segments iterator still yields
    segment,        \* per request: the segment of the current iteration
    embedding,      \* per request: the embedding of the current segment
    now_ms,         \* per request: the clock value read at line 300
    tracks,         \* per request: the local Vec<Track>
    warnings,       \* per request: the local Vec<String>
    response,       \* per request: what the handler returned
    arrived,        \* per request: history, the sessions stale when it arrived
    pure            \* input/output of a pure function under SpecMap

vars == <<now, sessions, extractor, sessions_lock, pc, req, segs_left, segment,
          embedding, now_ms, tracks, warnings, response, arrived, pure>>

-----------------------------------------------------------------------------
(* Bounds of the model *)

\* number of clock steps the model lets pass
MaxTicks == 3
\* longest list of tracks merge_adjacent_tracks is given on its own
MaxMergeLen == 3
\* most elements one segments iterator yields
MaxSegs == 2
\* the same for concurrent requests
MaxConcSegs == 1

(* Program constants *)

\* ServeArgs.session_ttl_sec default
session_ttl_sec == 3600
\* ServeArgs.max_speakers default
default_max_speakers == 8
\* ServeArgs.threshold default, in hundredths
default_threshold == 52
\* DiarizeRequest.sample_rate default
default_sample_rate == 16000
\* the stitcher's gap tolerance in ms
merge_gap_ms == 250

Requests == {1, 2}

Max(a, b) == IF a >= b THEN a ELSE b
Min(a, b) == IF a <= b THEN a ELSE b

\* Option<T>: None is <<>>, Some(x) is <<x>>
None == <<>>
Some(x) == <<x>>
unwrap_or(opt, d) == IF opt = None THEN d ELSE opt[1]

\* f32::clamp / i64::clamp
clamp(x, lo, hi) == IF x < lo THEN lo ELSE IF x > hi THEN hi ELSE x

\* f64::round of h/2 (round half away from zero), h in half-units
RoundHalf(h) == IF h >= 0 THEN (h + 1) \div 2 ELSE -((1 - h) \div 2)

\* Config built by serve()
config ==
    [ max_speakers   |-> Max(default_max_speakers, 1),
      threshold      |-> clamp(default_threshold, 0, 100),
      session_ttl_ms |-> Max(session_ttl_sec, 60) * 1000 ]

\* the clock advances in steps of half a TTL
ClockStep == config.session_ttl_ms \div 2

\* current_epoch_ms(): the clock as milliseconds since the epoch
current_epoch_ms == now

-----------------------------------------------------------------------------
(* String helpers: a string is a sequence of one-character strings *)

IsSpace(c) == c = " "

RECURSIVE TrimStart(_)
TrimStart(s) ==
    IF s = <<>> THEN s
    ELSE IF IsSpace(Head(s)) THEN TrimStart(Tail(s)) ELSE s

RECURSIVE TrimEnd(_)
TrimEnd(s) ==
    IF s = <<>> THEN s
    ELSE IF IsSpace(s[Len(s)]) THEN TrimEnd(SubSeq(s, 1, Len(s) - 1)) ELSE s

\* str::trim
Trim(s) == TrimEnd(TrimStart(s))

\* format!("edge_spk_{speaker_id}")
FormatSpeakerId(id) == <<"edge_spk_", id>>

-----------------------------------------------------------------------------
(* Pure functions of main.rs *)

\* AppError::bad_request / AppError::internal, as IntoResponse renders them
bad_request(message) == [status |-> 400, detail |-> message]
internal(message) == [status |-> 500, detail |-> message]

\* decode_pcm_s16le: a payload is [valid: is it base64, bytes: decoded length];
\* the result is an error or the number of i16 samples
decode_pcm_s16le(content_b64) ==
    IF ~content_b64.valid
    THEN [ok |-> FALSE, err |-> bad_request("invalid base64 pcm payload")]
    ELSE IF content_b64.bytes = 0
    THEN [ok |-> FALSE, err |-> bad_request("content_b64 decoded to empty payload")]
    ELSE IF content_b64.bytes % 2 # 0
    THEN [ok |-> FALSE,
          err |-> bad_request("pcm payload must contain even number of bytes")]
    ELSE [ok |-> TRUE, samples |-> content_b64.bytes \div 2]

\* line 256: ((samples.len() as f64 / sample_rate as f64) * 1000.0).round() as i64
window_duration(samples, sample_rate) ==
    RoundHalf((2 * 1000 * samples) \div sample_rate)

\* map_segment_to_track with line 215 losing its `.max(start_ms)`
map_segment_to_track_NoFloor(seg, window_start_ms, window_end_ms, speaker_id) ==
    LET l0 == RoundHalf(seg.start)
        l1 == RoundHalf(seg.end)
        local_start_ms == IF l1 < l0 THEN l1 ELSE l0
        local_end_ms == IF l1 < l0 THEN l0 ELSE l1
        start_ms == Max(window_start_ms + local_start_ms, window_start_ms)
        end_ms == Min(window_start_ms + local_end_ms, window_end_ms)
    IN  [ speaker_id     |-> FormatSpeakerId(speaker_id),
          start_ms       |-> start_ms,
          end_ms         |-> end_ms,
          duration_ms    |-> Max(end_ms - start_ms, 0),
          local_start_ms |-> Max(local_start_ms, 0),
          local_end_ms   |-> Max(local_end_ms, Max(local_start_ms, 0)) ]

\* map_segment_to_track
map_segment_to_track(seg, window_start_ms, window_end_ms, speaker_id) ==
    LET l0 == RoundHalf(seg.start)
        l1 == RoundHalf(seg.end)
        local_start_ms == IF l1 < l0 THEN l1 ELSE l0
        local_end_ms == IF l1 < l0 THEN l0 ELSE l1
        s0 == window_start_ms + local_start_ms
        e0 == window_start_ms + local_end_ms
        s1 == IF e0 < s0 THEN e0 ELSE s0
        e1 == IF e0 < s0 THEN s0 ELSE e0
        start_ms == Max(s1, window_start_ms)
        end_ms == Max(Min(e1, window_end_ms), start_ms)
    IN  [ speaker_id     |-> FormatSpeakerId(speaker_id),
          start_ms       |-> start_ms,
          end_ms         |-> end_ms,
          duration_ms    |-> Max(end_ms - start_ms, 0),
          local_start_ms |-> Max(local_start_ms, 0),
          local_end_ms   |-> Max(local_end_ms, Max(local_start_ms, 0)) ]

\* the comparator of line 179 under a sort that does not keep the order of
\* equal elements
TrackLeq_Strict(a, b) ==
    \/ a.start_ms < b.start_ms
    \/ a.start_ms = b.start_ms /\ a.end_ms < b.end_ms

\* the comparator of line 179: start_ms, then end_ms
TrackLeq(a, b) ==
    \/ a.start_ms < b.start_ms
    \/ a.start_ms = b.start_ms /\ a.end_ms <= b.end_ms

\* insert t behind every element that does not sort after it (stable)
RECURSIVE InsertTrack(_, _)
InsertTrack(sorted, t) ==
    IF sorted = <<>> THEN <<t>>
    ELSE IF TrackLeq(Head(sorted), t)
         THEN <<Head(sorted)>> \o InsertTrack(Tail(sorted), t)
         ELSE <<t>> \o sorted

\* Vec::sort_by (a stable sort) with the comparator of line 179
RECURSIVE SortTracks(_)
SortTracks(ts) ==
    IF ts = <<>> THEN <<>>
    ELSE InsertTrack(SortTracks(SubSeq(ts, 1, Len(ts) - 1)), ts[Len(ts)])

\* one iteration of the loop of lines 182-194 with `gap < 250` at line 186
MergeStep_GapStrict(merged, current) ==
    IF merged = <<>> THEN <<current>>
    ELSE LET last == merged[Len(merged)]
             same_speaker == last.speaker_id = current.speaker_id
             gap == current.start_ms - last.end_ms
         IN  IF same_speaker /\ gap < merge_gap_ms
             THEN LET end_ms == Max(last.end_ms, current.end_ms)
                  IN  SubSeq(merged, 1, Len(merged) - 1) \o
                      << [ last EXCEPT
                             !.end_ms = end_ms,
                             !.local_end_ms = Max(last.local_end_ms, current.local_end_ms),
                             !.duration_ms = Max(end_ms - last.start_ms, 0) ] >>
             ELSE Append(merged, current)

\* one iteration of the loop of lines 182-194
MergeStep(merged, current) ==
    IF merged = <<>> THEN <<current>>
    ELSE LET last == merged[Len(merged)]
             same_speaker == last.speaker_id = current.speaker_id
             gap == current.start_ms - last.end_ms
         IN  IF same_speaker /\ gap <= merge_gap_ms
             THEN LET end_ms == Max(last.end_ms, current.end_ms)
                  IN  SubSeq(merged, 1, Len(merged) - 1) \o
                      << [ last EXCEPT
                             !.end_ms = end_ms,
                             !.local_end_ms = Max(last.local_end_ms, current.local_end_ms),
                             !.duration_ms = Max(end_ms - last.start_ms, 0) ] >>
             ELSE Append(merged, current)

RECURSIVE MergeFold(_, _)
MergeFold(merged, rest) ==
    IF rest = <<>> THEN merged
    ELSE MergeFold(MergeStep(merged, Head(rest)), Tail(rest))

\* merge_adjacent_tracks without the sort of line 179
merge_adjacent_tracks_NoSort(ts) ==
    IF Len(ts) <= 1 THEN ts ELSE MergeFold(<<>>, ts)

\* merge_adjacent_tracks
merge_adjacent_tracks(ts) ==
    IF Len(ts) <= 1 THEN ts ELSE MergeFold(<<>>, SortTracks(ts))

-----------------------------------------------------------------------------
(* pyannote_rs::EmbeddingManager, the clustering capability.  Its code is   *)
(* not part of main.rs; it is modelled from the contract the specification  *)
(* gives.  A manager is [max_speakers, speakers]; speakers is the sequence  *)
(* of registered embeddings and a speaker's label is its index (from 1).    *)

Embeddings == {1, 2}
\* the embeddings concurrent requests compute
ConcEmbeddings == {1}

\* similarity of two embeddings, in hundredths
Similarity(a, b) == IF a = b THEN 100 ELSE 30

\* EmbeddingManager::new(max_speakers)
EmbeddingManager_new(max_speakers) ==
    [max_speakers |-> max_speakers, speakers |-> <<>>]

\* the registered speaker most similar to e among `among` (lowest label on a tie)
BestOf(m, e, among) ==
    CHOOSE i \in among :
        \A j \in among :
            \/ Similarity(m.speakers[i], e) > Similarity(m.speakers[j], e)
            \/ Similarity(m.speakers[i], e) = Similarity(m.speakers[j], e) /\ i <= j

\* search_speaker: an existing speaker within threshold of e, if any
search_speaker(m, e, threshold) ==
    LET within == {i \in 1..Len(m.speakers) :
                      Similarity(m.speakers[i], e) >= threshold}
    IN  IF within = {} THEN None ELSE Some(BestOf(m, e, within))

\* get_best_speaker_match: the outcomes [result, manager] the contract allows.
\* With capacity left a new speaker is registered; with none left the call
\* yields nothing or the most similar registered speaker.
get_best_speaker_match(m, e) ==
    IF Len(m.speakers) < m.max_speakers
    THEN { [ result  |-> Some(Len(m.speakers) + 1),
             manager |-> [m EXCEPT !.speakers = Append(@, e)] ] }
    ELSE { [result |-> None, manager |-> m] } \cup
         ( IF m.speakers = <<>> THEN {}
           ELSE { [ result  |-> Some(BestOf(m, e, 1..Len(m.speakers))),
                    manager |-> m ] } )

-----------------------------------------------------------------------------
(* Inputs.  A request body is [session_id, sample_rate, threshold,          *)
(* content_b64, start_end_ms, max_speakers].  Bodies and SegmentResults are  *)
(* what a single request is taken through; ConcBodies and                    *)
(* ConcSegmentResults are the narrower inputs of concurrent requests.        *)

\* DiarizeRequest.session_id as sent
RawSessionIds == { <<>>, <<" ">>, <<"a">>, <<" ", "a", " ">>, <<"b">> }
\* DiarizeRequest.content_b64: not base64, empty, odd, one second of 16 kHz PCM
Payloads == { [valid |-> FALSE, bytes |-> 0], [valid |-> TRUE, bytes |-> 0],
              [valid |-> TRUE, bytes |-> 3], [valid |-> TRUE, bytes |-> 32000] }
\* DiarizeRequest.sample_rate
SampleRates == { None, Some(0) }
\* DiarizeRequest.start_end_ms
StartEnds == { None, Some(<<200, 600>>), Some(<<500, 300>>), Some(<<-100, 200>>) }
\* DiarizeRequest.threshold, in hundredths
Thresholds == { None, Some(-5) }
\* DiarizeRequest.max_speakers
MaxSpeakers == { None, Some(0), Some(1) }

Bodies ==
    [ session_id : RawSessionIds, sample_rate : SampleRates, threshold : Thresholds,
      content_b64 : Payloads, start_end_ms : StartEnds, max_speakers : MaxSpeakers ]

ConcBodies ==
    [ session_id : { <<"a">>, <<"b">> }, sample_rate : { None }, threshold : { None },
      content_b64 : { [valid |-> TRUE, bytes |-> 32000] }, start_end_ms : { None },
      max_speakers : { None } ]

SessBodies ==
    [ session_id : { <<"a">>, <<"b">> }, sample_rate : { None }, threshold : { None },
      content_b64 : { [valid |-> TRUE, bytes |-> 32000] }, start_end_ms : { None },
      max_speakers : MaxSpeakers ]

\* Segment.start/end in half-milliseconds: 0.1-0.4 s, 0.5-0.3 s (inverted),
\* 0.5505-0.7 s, 1.2-1.5 s (behind a one-second window)
SegmentTimes == { <<200, 800>>, <<1000, 600>>, <<1101, 1400>>, <<2400, 3000>> }

\* what the segments iterator can yield: an error, a segment without samples,
\* a segment with samples
SegmentResultsOf(times) ==
    { [ok |-> FALSE] } \cup
    { [ok |-> TRUE, segment |-> [start |-> 0, end |-> 0, samples |-> 0]] } \cup
    { [ok |-> TRUE, segment |-> [start |-> t[1], end |-> t[2], samples |-> 1]] :
        t \in times }

SegmentResults == SegmentResultsOf(SegmentTimes)
ConcSegmentResults == SegmentResultsOf({ <<200, 800>> })

-----------------------------------------------------------------------------
(* State *)

NoReq == [ session_id |-> <<>>, threshold |-> 0, max_speakers |-> None,
           window_start_ms |-> 0, window_end_ms |-> 0 ]
NoSegment == [start |-> 0, end |-> 0, samples |-> 0]
NoResponse == [status |-> 0]
NoPure == [fn |-> "none"]

\* the sessions the sweep of line 303 would drop at clock value t
Stale(t) ==
    {k \in DOMAIN sessions : t - sessions[k].last_seen_ms > config.session_ttl_ms}

\* the same sessions, each with the last_seen_ms it has
StaleSessions(t) == { <<k, sessions[k].last_seen_ms>> : k \in Stale(t) }

Init ==
    /\ now = 0
    /\ sessions = [k \in {} |-> 0]
    /\ extractor = 0
    /\ sessions_lock = 0
    /\ pc = [r \in Requests |-> "idle"]
    /\ req = [r \in Requests |-> NoReq]
    /\ segs_left = [r \in Requests |-> 0]
    /\ segment = [r \in Requests |-> NoSegment]
    /\ embedding = [r \in Requests |-> 0]
    /\ now_ms = [r \in Requests |-> 0]
    /\ tracks = [r \in Requests |-> <<>>]
    /\ warnings = [r \in Requests |-> <<>>]
    /\ response = [r \in Requests |-> NoResponse]
    /\ arrived = [r \in Requests |-> {}]
    /\ pure = NoPure

\* the handler returns: its locals are dropped
Return(r, resp) ==
    /\ pc' = [pc EXCEPT ![r] = "done"]
    /\ response' = [response EXCEPT ![r] = resp]
    /\ req' = [req EXCEPT ![r] = NoReq]
    /\ segs_left' = [segs_left EXCEPT ![r] = 0]
    /\ segment' = [segment EXCEPT ![r] = NoSegment]
    /\ embedding' = [embedding EXCEPT ![r] = 0]
    /\ now_ms' = [now_ms EXCEPT ![r] = 0]
    /\ tracks' = [tracks EXCEPT ![r] = <<>>]
    /\ warnings' = [warnings EXCEPT ![r] = <<>>]
    /\ arrived' = [arrived EXCEPT ![r] = {}]

\* lines 240-276 with the guard of line 259 reduced to `end >= start`
Validate_NoStartCheck(body, segments) ==
    LET session_id == Trim(body.session_id)
        sample_rate == unwrap_or(body.sample_rate, default_sample_rate)
        threshold == clamp(unwrap_or(body.threshold, config.threshold), 0, 100)
        decoded == decode_pcm_s16le(body.content_b64)
        window_duration_ms == window_duration(decoded.samples, sample_rate)
        start_end_ms == body.start_end_ms
        window_ok == \/ start_end_ms = None
                     \/ start_end_ms[1][2] >= start_end_ms[1][1]
    IN  IF session_id = <<>>
        THEN [ok |-> FALSE, err |-> bad_request("session_id is required")]
        ELSE IF sample_rate = 0
        THEN [ok |-> FALSE, err |-> bad_request("sample_rate must be positive")]
        ELSE IF ~decoded.ok
        THEN [ok |-> FALSE, err |-> decoded.err]
        ELSE IF ~window_ok
        THEN [ok |-> FALSE,
              err |-> bad_request("start_end_ms must be [start,end] and end >= start")]
        ELSE IF segments = None
        THEN [ok |-> FALSE, err |-> internal("segmentation failed")]
        ELSE [ ok  |-> TRUE,
               req |-> [ session_id      |-> session_id,
                         threshold       |-> threshold,
                         max_speakers    |-> body.max_speakers,
                         window_start_ms |-> IF start_end_ms = None THEN 0
                                             ELSE start_end_ms[1][1],
                         window_end_ms   |-> IF start_end_ms = None
                                             THEN Max(window_duration_ms, 0)
                                             ELSE start_end_ms[1][2] ],
               segs |-> segments[1] ]

\* lines 240-276 with get_segments (271-276) called ahead of the checks of
\* the body
Validate_SegmentsFirst(body, segments) ==
    LET session_id == Trim(body.session_id)
        sample_rate == unwrap_or(body.sample_rate, default_sample_rate)
        threshold == clamp(unwrap_or(body.threshold, config.threshold), 0, 100)
        decoded == decode_pcm_s16le(body.content_b64)
        window_duration_ms == window_duration(decoded.samples, sample_rate)
        start_end_ms == body.start_end_ms
        window_ok == \/ start_end_ms = None
                     \/ start_end_ms[1][1] >= 0 /\ start_end_ms[1][2] >= start_end_ms[1][1]
    IN  IF segments = None
        THEN [ok |-> FALSE, err |-> internal("segmentation failed")]
        ELSE IF session_id = <<>>
        THEN [ok |-> FALSE, err |-> bad_request("session_id is required")]
        ELSE IF sample_rate = 0
        THEN [ok |-> FALSE, err |-> bad_request("sample_rate must be positive")]
        ELSE IF ~decoded.ok
        THEN [ok |-> FALSE, err |-> decoded.err]
        ELSE IF ~window_ok
        THEN [ok |-> FALSE,
              err |-> bad_request("start_end_ms must be [start,end] and end >= start")]
        ELSE [ ok  |-> TRUE,
               req |-> [ session_id      |-> session_id,
                         threshold       |-> threshold,
                         max_speakers    |-> body.max_speakers,
                         window_start_ms |-> IF start_end_ms = None THEN 0
                                             ELSE start_end_ms[1][1],
                         window_end_ms   |-> IF start_end_ms = None
                                             THEN Max(window_duration_ms, 0)
                                             ELSE start_end_ms[1][2] ],
               segs |-> segments[1] ]

\* lines 240-276 for one request body and one result of get_segments (None
\* for its error, Some(n) for an iterator of n elements): an error response,
\* or the locals the loop starts with
Validate(body, segments) ==
    LET session_id == Trim(body.session_id)
        sample_rate == unwrap_or(body.sample_rate, default_sample_rate)
        threshold == clamp(unwrap_or(body.threshold, config.threshold), 0, 100)
        decoded == decode_pcm_s16le(body.content_b64)
        window_duration_ms == window_duration(decoded.samples, sample_rate)
        start_end_ms == body.start_end_ms
        window_ok == \/ start_end_ms = None
                     \/ start_end_ms[1][1] >= 0 /\ start_end_ms[1][2] >= start_end_ms[1][1]
    IN  IF session_id = <<>>
        THEN [ok |-> FALSE, err |-> bad_request("session_id is required")]
        ELSE IF sample_rate = 0
        THEN [ok |-> FALSE, err |-> bad_request("sample_rate must be positive")]
        ELSE IF ~decoded.ok
        THEN [ok |-> FALSE, err |-> decoded.err]
        ELSE IF ~window_ok
        THEN [ok |-> FALSE,
              err |-> bad_request("start_end_ms must be [start,end] and end >= start")]
        ELSE IF segments = None
        THEN [ok |-> FALSE, err |-> internal("segmentation failed")]
        ELSE [ ok  |-> TRUE,
               req |-> [ session_id      |-> session_id,
                         threshold       |-> threshold,
                         max_speakers    |-> body.max_speakers,
                         window_start_ms |-> IF start_end_ms = None THEN 0
                                             ELSE start_end_ms[1][1],
                         window_end_ms   |-> IF start_end_ms = None
                                             THEN Max(window_duration_ms, 0)
                                             ELSE start_end_ms[1][2] ],
               segs |-> segments[1] ]

\* every body of `bodies` with every result of get_segments of at most
\* max_segs elements, taken through lines 240-276
StartOutcomesOf(bodies, max_segs) ==
    { Validate(body, segments) :
        body \in bodies, segments \in {None} \cup {Some(n) : n \in 0..max_segs} }

StartOutcomes == StartOutcomesOf(Bodies, MaxSegs)
ConcStartOutcomes == StartOutcomesOf(ConcBodies, MaxConcSegs)
SessStartOutcomes == StartOutcomesOf(SessBodies, MaxSegs)

\* a request arrives and the handler runs up to its loop (lines 240-276)
Start(r, outcomes, record) ==
    /\ pc[r] \in {"idle", "done"}
    /\ \E v \in outcomes :
          IF ~v.ok
          THEN Return(r, v.err)
          ELSE /\ pc' = [pc EXCEPT ![r] = "loop"]
               /\ req' = [req EXCEPT ![r] = v.req]
               /\ segs_left' = [segs_left EXCEPT ![r] = v.segs]
               /\ response' = [response EXCEPT ![r] = NoResponse]
               /\ arrived' = [arrived EXCEPT ![r] = IF record THEN StaleSessions(now) ELSE {}]
               /\ UNCHANGED <<segment, embedding, now_ms, tracks, warnings>>
    /\ UNCHANGED <<now, sessions, extractor, sessions_lock, pure>>

\* lines 278-285 with `?` on the element: an erroneous element ends the request
NextSegment_Abort(r, results) ==
    /\ pc[r] = "loop"
    /\ segs_left[r] > 0
    /\ \E segment_result \in results :
          IF ~segment_result.ok
          THEN Return(r, internal("segment failed"))
          ELSE /\ segs_left' = [segs_left EXCEPT ![r] = @ - 1]
               /\ IF segment_result.segment.samples = 0
                  THEN UNCHANGED <<pc, segment>>
                  ELSE /\ segment' = [segment EXCEPT ![r] = segment_result.segment]
                       /\ pc' = [pc EXCEPT ![r] = "lock_extractor"]
               /\ UNCHANGED <<req, embedding, now_ms, tracks, warnings, response,
                              arrived>>
    /\ UNCHANGED <<now, sessions, extractor, sessions_lock, pure>>

\* the head of the loop (lines 278-289): the iterator yields its next element
NextSegment(r, results) ==
    /\ pc[r] = "loop"
    /\ segs_left[r] > 0
    /\ segs_left' = [segs_left EXCEPT ![r] = @ - 1]
    /\ \E segment_result \in results :
          IF ~segment_result.ok
          THEN /\ warnings' = [warnings EXCEPT ![r] = Append(@, "segment skipped")]
               /\ UNCHANGED <<pc, segment>>
          ELSE IF segment_result.segment.samples = 0
          THEN UNCHANGED <<pc, segment, warnings>>
          ELSE /\ segment' = [segment EXCEPT ![r] = segment_result.segment]
               /\ pc' = [pc EXCEPT ![r] = "lock_extractor"]
               /\ UNCHANGED warnings
    /\ UNCHANGED <<now, sessions, extractor, sessions_lock, req, embedding, now_ms,
                   tracks, response, arrived, pure>>

\* line 292 taking the extractor without waiting for its holder
LockExtractor_NoWait(r) ==
    /\ pc[r] = "lock_extractor"
    /\ extractor' = r
    /\ pc' = [pc EXCEPT ![r] = "compute"]
    /\ UNCHANGED <<now, sessions, sessions_lock, req, segs_left, segment, embedding,
                   now_ms, tracks, warnings, response, arrived, pure>>

\* line 292: state.extractor.lock().await
LockExtractor(r) ==
    /\ pc[r] = "lock_extractor"
    /\ extractor = 0
    /\ extractor' = r
    /\ pc' = [pc EXCEPT ![r] = "compute"]
    /\ UNCHANGED <<now, sessions, sessions_lock, req, segs_left, segment, embedding,
                   now_ms, tracks, warnings, response, arrived, pure>>

\* lines 291-297 without the block: the extractor guard lives on to the end of
\* the iteration
Compute_KeepsGuard(r, embeddings) ==
    /\ pc[r] = "compute"
    /\ \E result \in {None} \cup {Some(e) : e \in embeddings} :
          IF result = None
          THEN /\ extractor' = 0
               /\ Return(r, internal("embedding failed"))
          ELSE /\ extractor' = extractor
               /\ embedding' = [embedding EXCEPT ![r] = result[1]]
               /\ pc' = [pc EXCEPT ![r] = "read_clock"]
               /\ UNCHANGED <<req, segs_left, segment, now_ms, tracks, warnings,
                              response, arrived>>
    /\ UNCHANGED <<now, sessions, sessions_lock, pure>>

\* lines 293-297 answering with the tracks collected so far when compute fails
Compute_Truncating(r, embeddings) ==
    /\ pc[r] = "compute"
    /\ extractor' = 0
    /\ \E result \in {None} \cup {Some(e) : e \in embeddings} :
          IF result = None
          THEN Return(r, [ status     |-> 200,
                           session_id |-> req[r].session_id,
                           tracks     |-> merge_adjacent_tracks(tracks[r]),
                           warnings   |-> warnings[r] ])
          ELSE /\ embedding' = [embedding EXCEPT ![r] = result[1]]
               /\ pc' = [pc EXCEPT ![r] = "read_clock"]
               /\ UNCHANGED <<req, segs_left, segment, now_ms, tracks, warnings,
                              response, arrived>>
    /\ UNCHANGED <<now, sessions, sessions_lock, pure>>

\* lines 293-297: extractor.compute fails or yields an embedding; the guard is
\* dropped either way
Compute(r, embeddings) ==
    /\ pc[r] = "compute"
    /\ extractor' = 0
    /\ \E result \in {None} \cup {Some(e) : e \in embeddings} :
          IF result = None
          THEN Return(r, internal("embedding failed"))
          ELSE /\ embedding' = [embedding EXCEPT ![r] = result[1]]
               /\ pc' = [pc EXCEPT ![r] = "read_clock"]
               /\ UNCHANGED <<req, segs_left, segment, now_ms, tracks, warnings,
                              response, arrived>>
    /\ UNCHANGED <<now, sessions, sessions_lock, pure>>

\* line 300: let now_ms = current_epoch_ms()
ReadClock(r) ==
    /\ pc[r] = "read_clock"
    /\ now_ms' = [now_ms EXCEPT ![r] = current_epoch_ms]
    /\ pc' = [pc EXCEPT ![r] = "lock_sessions"]
    /\ UNCHANGED <<now, sessions, extractor, sessions_lock, req, segs_left, segment,
                   embedding, tracks, warnings, response, arrived, pure>>

\* line 301 taking the session table without waiting for its holder
LockSessions_NoWait(r) ==
    /\ pc[r] = "lock_sessions"
    /\ sessions_lock' = r
    /\ pc' = [pc EXCEPT ![r] = "retain"]
    /\ UNCHANGED <<now, sessions, extractor, req, segs_left, segment, embedding,
                   now_ms, tracks, warnings, response, arrived, pure>>

\* line 301: state.sessions.lock().await
LockSessions(r) ==
    /\ pc[r] = "lock_sessions"
    /\ sessions_lock = 0
    /\ sessions_lock' = r
    /\ pc' = [pc EXCEPT ![r] = "retain"]
    /\ UNCHANGED <<now, sessions, extractor, req, segs_left, segment, embedding,
                   now_ms, tracks, warnings, response, arrived, pure>>

\* the predicate of line 303 with `<` for `<=`
Retained_Strict(t, item) == t - item.last_seen_ms < config.session_ttl_ms

\* the predicate of line 303
Retained(t, item) == t - item.last_seen_ms <= config.session_ttl_ms

\* line 303 left out: nothing is swept
Retain_NoSweep(r) ==
    /\ pc[r] = "retain"
    /\ pc' = [pc EXCEPT ![r] = "entry"]
    /\ UNCHANGED <<now, sessions, extractor, sessions_lock, req, segs_left, segment,
                   embedding, now_ms, tracks, warnings, response, arrived, pure>>

\* line 303: sessions.retain
Retain(r) ==
    /\ pc[r] = "retain"
    /\ sessions' = [k \in {j \in DOMAIN sessions : Retained(now_ms[r], sessions[j])}
                      |-> sessions[k]]
    /\ pc' = [pc EXCEPT ![r] = "entry"]
    /\ UNCHANGED <<now, extractor, sessions_lock, req, segs_left, segment, embedding,
                   now_ms, tracks, warnings, response, arrived, pure>>

\* lines 305-312 with the request's max_speakers applied to a session found
Entry_Resizes(r) ==
    /\ pc[r] = "entry"
    /\ LET k == req[r].session_id
           capacity == unwrap_or(req[r].max_speakers, config.max_speakers)
           found == IF k \in DOMAIN sessions
                    THEN [sessions[k] EXCEPT !.manager.max_speakers = capacity]
                    ELSE [ manager |-> EmbeddingManager_new(capacity),
                           last_seen_ms |-> now_ms[r] ]
       IN  sessions' = [j \in DOMAIN sessions \cup {k} |->
                          IF j = k THEN [found EXCEPT !.last_seen_ms = now_ms[r]]
                          ELSE sessions[j]]
    /\ pc' = [pc EXCEPT ![r] = "resolve"]
    /\ UNCHANGED <<now, extractor, sessions_lock, req, segs_left, segment, embedding,
                   now_ms, tracks, warnings, response, arrived, pure>>

\* lines 305-312 with insert for entry().or_insert_with: a new session each time
Entry_AlwaysFresh(r) ==
    /\ pc[r] = "entry"
    /\ LET k == req[r].session_id
           fresh == [ manager |-> EmbeddingManager_new(
                                    unwrap_or(req[r].max_speakers, config.max_speakers)),
                      last_seen_ms |-> now_ms[r] ]
       IN  sessions' = [j \in DOMAIN sessions \cup {k} |->
                          IF j = k THEN fresh ELSE sessions[j]]
    /\ pc' = [pc EXCEPT ![r] = "resolve"]
    /\ UNCHANGED <<now, extractor, sessions_lock, req, segs_left, segment, embedding,
                   now_ms, tracks, warnings, response, arrived, pure>>

\* lines 305-312: entry(session_id).or_insert_with(..), then last_seen_ms = now_ms
Entry(r) ==
    /\ pc[r] = "entry"
    /\ LET k == req[r].session_id
           found == IF k \in DOMAIN sessions THEN sessions[k]
                    ELSE [ manager |-> EmbeddingManager_new(
                                         unwrap_or(req[r].max_speakers,
                                                   config.max_speakers)),
                           last_seen_ms |-> now_ms[r] ]
       IN  sessions' = [j \in DOMAIN sessions \cup {k} |->
                          IF j = k THEN [found EXCEPT !.last_seen_ms = now_ms[r]]
                          ELSE sessions[j]]
    /\ pc' = [pc EXCEPT ![r] = "resolve"]
    /\ UNCHANGED <<now, extractor, sessions_lock, req, segs_left, segment, embedding,
                   now_ms, tracks, warnings, response, arrived, pure>>

\* lines 314-321: the speaker id and the manager the two calls leave behind
ResolveOutcomes(manager, e, threshold) ==
    LET found == search_speaker(manager, e, threshold)
    IN  IF found # None
        THEN { [speaker_id |-> found[1], manager |-> manager] }
        ELSE { [speaker_id |-> unwrap_or(o.result, 0), manager |-> o.manager] :
                 o \in get_best_speaker_match(manager, e) }

\* lines 314-334 with the session guard leaked instead of dropped at line 322
Resolve_KeepsLock(r) ==
    /\ pc[r] = "resolve"
    /\ req[r].session_id \in DOMAIN sessions
    /\ \E o \in ResolveOutcomes(sessions[req[r].session_id].manager, embedding[r],
                                req[r].threshold) :
          /\ sessions' = [sessions EXCEPT ![req[r].session_id].manager = o.manager]
          /\ IF o.speaker_id = 0
             THEN /\ warnings' = [warnings EXCEPT ![r] =
                        Append(@, "speaker assignment returned 0, segment dropped")]
                  /\ UNCHANGED tracks
             ELSE /\ tracks' = [tracks EXCEPT ![r] =
                        Append(@, map_segment_to_track(segment[r],
                                     req[r].window_start_ms, req[r].window_end_ms,
                                     o.speaker_id))]
                  /\ UNCHANGED warnings
    /\ pc' = [pc EXCEPT ![r] = "loop"]
    /\ segment' = [segment EXCEPT ![r] = NoSegment]
    /\ embedding' = [embedding EXCEPT ![r] = 0]
    /\ now_ms' = [now_ms EXCEPT ![r] = 0]
    /\ UNCHANGED <<now, extractor, sessions_lock, req, segs_left, response, arrived,
                   pure>>

\* lines 314-334 without the test of line 324: speaker 0 gets a track too
Resolve_KeepsZero(r) ==
    /\ pc[r] = "resolve"
    /\ req[r].session_id \in DOMAIN sessions
    /\ \E o \in ResolveOutcomes(sessions[req[r].session_id].manager, embedding[r],
                                req[r].threshold) :
          /\ sessions' = [sessions EXCEPT ![req[r].session_id].manager = o.manager]
          /\ tracks' = [tracks EXCEPT ![r] =
                Append(@, map_segment_to_track(segment[r], req[r].window_start_ms,
                                               req[r].window_end_ms, o.speaker_id))]
          /\ UNCHANGED warnings
    /\ sessions_lock' = 0
    /\ pc' = [pc EXCEPT ![r] = "loop"]
    /\ segment' = [segment EXCEPT ![r] = NoSegment]
    /\ embedding' = [embedding EXCEPT ![r] = 0]
    /\ now_ms' = [now_ms EXCEPT ![r] = 0]
    /\ UNCHANGED <<now, extractor, req, segs_left, response, arrived, pure>>

\* lines 314-334: resolve the speaker on the touched session, drop the guard,
\* then warn or push the track
Resolve(r) ==
    /\ pc[r] = "resolve"
    /\ req[r].session_id \in DOMAIN sessions
    /\ \E o \in ResolveOutcomes(sessions[req[r].session_id].manager, embedding[r],
                                req[r].threshold) :
          /\ sessions' = [sessions EXCEPT ![req[r].session_id].manager = o.manager]
          /\ IF o.speaker_id = 0
             THEN /\ warnings' = [warnings EXCEPT ![r] =
                        Append(@, "speaker assignment returned 0, segment dropped")]
                  /\ UNCHANGED tracks
             ELSE /\ tracks' = [tracks EXCEPT ![r] =
                        Append(@, map_segment_to_track(segment[r],
                                     req[r].window_start_ms, req[r].window_end_ms,
                                     o.speaker_id))]
                  /\ UNCHANGED warnings
    /\ sessions_lock' = 0
    /\ pc' = [pc EXCEPT ![r] = "loop"]
    /\ segment' = [segment EXCEPT ![r] = NoSegment]
    /\ embedding' = [embedding EXCEPT ![r] = 0]
    /\ now_ms' = [now_ms EXCEPT ![r] = 0]
    /\ UNCHANGED <<now, extractor, req, segs_left, response, arrived, pure>>

\* lines 337-343: the iterator is exhausted; stitch and answer
Finish(r) ==
    /\ pc[r] = "loop"
    /\ segs_left[r] = 0
    /\ Return(r, [ status     |-> 200,
                   session_id |-> req[r].session_id,
                   tracks     |-> merge_adjacent_tracks(tracks[r]),
                   warnings   |-> warnings[r] ])
    /\ UNCHANGED <<now, sessions, extractor, sessions_lock, pure>>

\* time passes
Tick ==
    /\ now < MaxTicks * ClockStep
    /\ now' = now + ClockStep
    /\ UNCHANGED <<sessions, extractor, sessions_lock, pc, req, segs_left, segment,
                   embedding, now_ms, tracks, warnings, response, arrived, pure>>

\* concurrent requests
Next ==
    \/ \E r \in Requests :
          \/ Start(r, ConcStartOutcomes, FALSE)
          \/ NextSegment(r, ConcSegmentResults)
          \/ LockExtractor(r)
          \/ Compute(r, ConcEmbeddings)
          \/ ReadClock(r)
          \/ LockSessions(r)
          \/ Retain(r)
          \/ Entry(r)
          \/ Resolve(r)
          \/ Finish(r)
    \/ Tick

Spec == Init /\ [][Next]_vars

\* every step of a handler that is enabled is taken in the end (the runtime
\* polls every task that can run), and the two mutexes hand the lock to every
\* waiter in turn (tokio's Mutex is fair)
Fairness ==
    \A r \in Requests :
        /\ WF_vars(NextSegment(r, ConcSegmentResults))
        /\ SF_vars(LockExtractor(r))
        /\ WF_vars(Compute(r, ConcEmbeddings))
        /\ WF_vars(ReadClock(r))
        /\ SF_vars(LockSessions(r))
        /\ WF_vars(Retain(r))
        /\ WF_vars(Entry(r))
        /\ WF_vars(Resolve(r))
        /\ WF_vars(Finish(r))

\* concurrent requests at one instant
NextFair ==
    \E r \in Requests :
        \/ Start(r, ConcStartOutcomes, FALSE)
        \/ NextSegment(r, ConcSegmentResults)
        \/ LockExtractor(r)
        \/ Compute(r, ConcEmbeddings)
        \/ ReadClock(r)
        \/ LockSessions(r)
        \/ Retain(r)
        \/ Entry(r)
        \/ Resolve(r)
        \/ Finish(r)

\* concurrent requests under a fair scheduler and fair locks
SpecFair == Init /\ [][NextFair]_vars /\ Fairness

\* one request after the other while time passes
NextSession ==
    \/ Start(1, SessStartOutcomes, TRUE)
    \/ NextSegment(1, ConcSegmentResults)
    \/ LockExtractor(1)
    \/ Compute(1, Embeddings)
    \/ ReadClock(1)
    \/ LockSessions(1)
    \/ Retain(1)
    \/ Entry(1)
    \/ Resolve(1)
    \/ Finish(1)
    \/ Tick

SpecSession == Init /\ [][NextSession]_vars

\* one request after the other, over every input
NextData ==
    \/ Start(1, StartOutcomes, FALSE)
    \/ NextSegment(1, SegmentResults)
    \/ LockExtractor(1)
    \/ Compute(1, Embeddings)
    \/ ReadClock(1)
    \/ LockSessions(1)
    \/ Retain(1)
    \/ Entry(1)
    \/ Resolve(1)
    \/ Finish(1)

SpecData == Init /\ [][NextData]_vars

-----------------------------------------------------------------------------
(* map_segment_to_track on its own: Init draws a segment and a window, the  *)
(* one action applies the function.                                          *)

\* Segment.start/end in half-milliseconds, on and across the window's edges
MapTimes == { -300, 0, 200, 801, 1000, 2400 }
\* windows [ws, we] with 0 <= ws <= we
MapWindows == { <<0, 0>>, <<0, 1000>>, <<200, 600>>, <<500, 500>> }

InitMap ==
    /\ Init!1 /\ Init!2 /\ Init!3 /\ Init!4 /\ Init!5 /\ Init!6 /\ Init!7
    /\ Init!8 /\ Init!9 /\ Init!10 /\ Init!11 /\ Init!12 /\ Init!13 /\ Init!14
    /\ pure \in [ fn : {"map"},
                  segment : [start : MapTimes, end : MapTimes, samples : {1}],
                  window : MapWindows,
                  speaker_id : {1},
                  out : {None} ]

MapApply ==
    /\ pure.fn = "map"
    /\ pure.out = None
    /\ pure' = [pure EXCEPT !.out = Some(map_segment_to_track(pure.segment,
                                  pure.window[1], pure.window[2], pure.speaker_id))]
    /\ UNCHANGED <<now, sessions, extractor, sessions_lock, pc, req, segs_left,
                   segment, embedding, now_ms, tracks, warnings, response, arrived>>

NextMap == MapApply

SpecMap == InitMap /\ [][NextMap]_vars

-----------------------------------------------------------------------------
(* The checks of the request body (lines 240-276) on a known body: Init     *)
(* draws the body of request 2 and the result of its get_segments call;     *)
(* request 1 runs beside it and fills the session table.                    *)

ValBodies ==
    [ session_id : { <<>>, <<" ">>, <<" ", "a", " ">> }, sample_rate : SampleRates,
      threshold : { None }, content_b64 : Payloads, start_end_ms : StartEnds,
      max_speakers : { None } ]

InitValidate ==
    /\ Init!1 /\ Init!2 /\ Init!3 /\ Init!4 /\ Init!5 /\ Init!6 /\ Init!7
    /\ Init!8 /\ Init!9 /\ Init!10 /\ Init!11 /\ Init!12 /\ Init!13 /\ Init!14
    /\ pure \in [ fn : {"validate"},
                  body : ValBodies,
                  segments : {None} \cup {Some(n) : n \in 0..MaxConcSegs} ]

\* request 2 arrives with the body drawn
StartPure ==
    /\ pure.fn = "validate"
    /\ pc[2] = "idle"
    /\ Start(2, {Validate(pure.body, pure.segments)}, FALSE)

NextValidate ==
    \/ StartPure
    \/ Start(1, ConcStartOutcomes, FALSE)
    \/ \E r \in Requests :
          \/ NextSegment(r, ConcSegmentResults)
          \/ LockExtractor(r)
          \/ Compute(r, ConcEmbeddings)
          \/ ReadClock(r)
          \/ LockSessions(r)
          \/ Retain(r)
          \/ Entry(r)
          \/ Resolve(r)
          \/ Finish(r)

SpecValidate == InitValidate /\ [][NextValidate]_vars

-----------------------------------------------------------------------------
(* merge_adjacent_tracks on its own: Init draws a list of tracks, the        *)
(* actions apply the function to it and then to its own result.              *)

\* start_ms/end_ms of the tracks: gaps of 250 and of 251 ms, overlaps, ties
MergeTimes == { 0, 100, 350, 351 }
MergeSpeakers == { 1, 2 }

\* a Track with end_ms >= start_ms and duration_ms = end_ms - start_ms, in a
\* window that starts at 0
MergeTracks ==
    { t \in { [ speaker_id     |-> FormatSpeakerId(sp),
                start_ms       |-> st,
                end_ms         |-> en,
                duration_ms    |-> en - st,
                local_start_ms |-> st,
                local_end_ms   |-> en ] :
                sp \in MergeSpeakers, st \in MergeTimes, en \in MergeTimes } :
        t.end_ms >= t.start_ms }

MergeLists == UNION { [1..n -> MergeTracks] : n \in 0..MaxMergeLen }

InitMerge ==
    /\ Init!1 /\ Init!2 /\ Init!3 /\ Init!4 /\ Init!5 /\ Init!6 /\ Init!7
    /\ Init!8 /\ Init!9 /\ Init!10 /\ Init!11 /\ Init!12 /\ Init!13 /\ Init!14
    /\ pure \in [ fn : {"merge"}, input : MergeLists, out : {None}, again : {None} ]

MergeApply ==
    /\ pure.fn = "merge"
    /\ pure.out = None
    /\ pure' = [pure EXCEPT !.out = Some(merge_adjacent_tracks(pure.input))]
    /\ UNCHANGED <<now, sessions, extractor, sessions_lock, pc, req, segs_left,
                   segment, embedding, now_ms, tracks, warnings, response, arrived>>

MergeAgain ==
    /\ pure.fn = "merge"
    /\ pure.out # None
    /\ pure.again = None
    /\ pure' = [pure EXCEPT !.again = Some(merge_adjacent_tracks(pure.out[1]))]
    /\ UNCHANGED <<now, sessions, extractor, sessions_lock, pc, req, segs_left,
                   segment, embedding, now_ms, tracks, warnings, response, arrived>>

NextMerge == MergeApply \/ MergeAgain

SpecMerge == InitMerge /\ [][NextMerge]_vars

-----------------------------------------------------------------------------
(* Claims *)

\* C1: for every segment and every window [ws, we] with 0 <= ws <= we, the
\* track map_segment_to_track produces satisfies ws <= start_ms <= end_ms <= we.
C1_MappedTrackInsideWindow ==
    (pure.fn = "map" /\ pure.out # None) =>
        LET t == pure.out[1]
        IN  /\ pure.window[1] <= t.start_ms
            /\ t.start_ms <= t.end_ms
            /\ t.end_ms <= pure.window[2]

\* the tracks a request holds or has answered with
TracksOf(r) ==
    { tracks[r][i] : i \in 1..Len(tracks[r]) } \cup
    ( IF response[r].status = 200
      THEN { response[r].tracks[i] : i \in 1..Len(response[r].tracks) }
      ELSE {} )

\* C2: every track of a successful diarize response, mapped or merged, and
\* every track a request has collected, has end_ms >= start_ms and
\* duration_ms = end_ms - start_ms, also when the segment's start is behind
\* its end.
C2_TrackDurations ==
    \A r \in Requests : \A t \in TracksOf(r) :
        /\ t.end_ms >= t.start_ms
        /\ t.duration_ms = t.end_ms - t.start_ms

\* a response whose one track is the merge of segment 0.1-0.4 s and the
\* inverted segment 0.5-0.3 s
C2_Witness ==
    /\ response[1].status = 200
    /\ Len(response[1].tracks) = 1
    /\ response[1].tracks[1].start_ms = 100
    /\ response[1].tracks[1].end_ms = 500
    /\ response[1].tracks[1].duration_ms = 400

\* C3: at most one request is inside extractor.compute at any instant, it is
\* the holder of the extractor lock, and while the lock is held no request
\* can acquire it.
C3_OneEmbeddingAtATime ==
    /\ Cardinality({r \in Requests : pc[r] = "compute"}) <= 1
    /\ \A r \in Requests : pc[r] = "compute" => extractor = r
    /\ extractor # 0 => \A r \in Requests : ~ENABLED LockExtractor(r)

\* one request computes while the other waits for the extractor
C3_Witness ==
    /\ pc[1] = "compute"
    /\ pc[2] = "lock_extractor"

\* C4: from the sweep to the speaker resolution of one segment the request
\* holds the session-table lock, and the session it touched is in the table,
\* with the timestamp the touch gave it, when its clustering state is used.
C4_TouchAndUseAtomic ==
    \A r \in Requests :
        /\ pc[r] \in {"retain", "entry", "resolve"} => sessions_lock = r
        /\ pc[r] = "resolve" =>
              /\ req[r].session_id \in DOMAIN sessions
              /\ sessions[req[r].session_id].last_seen_ms = now_ms[r]

\* request 1 has touched its session and not yet used it, while request 2
\* waits for the lock with a clock value whose sweep would drop that session
C4_Witness ==
    /\ pc[1] = "resolve"
    /\ pc[2] = "lock_sessions"
    /\ now_ms[2] - sessions[req[1].session_id].last_seen_ms > config.session_ttl_ms

\* the steps of one segment under the session-table lock
SweepStep(r) == pc[r] = "retain" /\ pc'[r] = "entry"
EntryStep(r) == pc[r] = "entry" /\ pc'[r] = "resolve"
ResolveStep(r) == pc[r] = "resolve" /\ pc'[r] = "loop"
\* the handler returns
ReturnStep(r) == pc[r] \notin {"idle", "done"} /\ pc'[r] = "done"

SkippedWarning == "segment skipped"
DroppedWarning == "speaker assignment returned 0, segment dropped"

\* the request has taken a segment through the session table
Touched(r) ==
    \/ tracks[r] # <<>>
    \/ \E i \in 1..Len(warnings[r]) : warnings[r][i] = DroppedWarning

\* session p = <<key, last_seen_ms>> is in the table st
InTable(p, st) == p[1] \in DOMAIN st /\ st[p[1]].last_seen_ms = p[2]

\* C5 as stated: a session stale when a request arrives (now - last_seen_ms >
\* ttl) is out of the table once that request has completed.
C5_Original ==
    [][ \A r \in Requests :
          (ReturnStep(r) /\ response'[r].status = 200) =>
              \A p \in arrived[r] : ~InTable(p, sessions') ]_vars

\* C5 amended: the sweep of a segment-processing step removes exactly the
\* sessions with now_ms - last_seen_ms > ttl, now_ms being the clock value the
\* step read, and keeps the others (age ttl included) as they are; only the
\* steps under the session-table lock change the table; a request that took a
\* segment through the table leaves no session that was stale on its arrival.
C5_SweepEvictsTheStale ==
    [][ /\ \A r \in Requests :
             /\ SweepStep(r) =>
                   /\ DOMAIN sessions' =
                         { k \in DOMAIN sessions :
                             now_ms[r] - sessions[k].last_seen_ms
                                 <= config.session_ttl_ms }
                   /\ \A k \in DOMAIN sessions' : sessions'[k] = sessions[k]
             /\ (ReturnStep(r) /\ Touched(r)) =>
                   \A p \in arrived[r] : ~InTable(p, sessions')
        /\ (\A r \in Requests : pc[r] \notin {"retain", "entry", "resolve"}) =>
              sessions' = sessions ]_vars

\* the sweep has dropped a session that was stale on arrival and kept one
\* whose age is exactly the TTL
C5_Witness ==
    /\ pc[1] = "entry"
    /\ \E p \in arrived[1] : p[1] \notin DOMAIN sessions
    /\ \E k \in DOMAIN sessions :
          now_ms[1] - sessions[k].last_seen_ms = config.session_ttl_ms

\* C6: a segment processed under a key whose stored session is older than the
\* TTL (by the clock value the step read) or that is unknown is resolved
\* against a new clustering state without speakers: the sweep drops the expired
\* session, the lookup finds only unexpired ones and creates the missing one,
\* and the resolution on it yields the first label or the sentinel.  The touch
\* always leaves a session under the key.
C6_ExpiredKeyStartsFresh ==
    [][ \A r \in Requests :
          LET k == req[r].session_id
          IN  /\ SweepStep(r) =>
                    ( ( /\ k \in DOMAIN sessions
                        /\ now_ms[r] - sessions[k].last_seen_ms > config.session_ttl_ms )
                      => k \notin DOMAIN sessions' )
              /\ EntryStep(r) =>
                    /\ \A j \in DOMAIN sessions :
                          now_ms[r] - sessions[j].last_seen_ms <= config.session_ttl_ms
                    /\ k \in DOMAIN sessions'
                    /\ sessions'[k].last_seen_ms = now_ms[r]
                    /\ k \notin DOMAIN sessions =>
                          /\ sessions'[k].manager.speakers = <<>>
                          /\ sessions'[k].manager.max_speakers =
                                unwrap_or(req[r].max_speakers, config.max_speakers)
              /\ (ResolveStep(r) /\ sessions[k].manager.speakers = <<>>) =>
                    /\ sessions'[k].manager.speakers \in {<<>>, <<embedding[r]>>}
                    /\ \/ /\ tracks'[r] = tracks[r]
                          /\ warnings'[r] = Append(warnings[r], DroppedWarning)
                       \/ /\ warnings'[r] = warnings[r]
                          /\ Len(tracks'[r]) = Len(tracks[r]) + 1
                          /\ tracks'[r][Len(tracks'[r])].speaker_id = FormatSpeakerId(1)
        ]_vars

\* the key of request 1 was stale on arrival and its session is new
C6_Witness ==
    /\ pc[1] = "resolve"
    /\ \E p \in arrived[1] : p[1] = req[1].session_id
    /\ sessions[req[1].session_id].manager.speakers = <<>>
    /\ sessions[req[1].session_id].last_seen_ms = now_ms[1]

IsPrefix(a, b) == Len(a) <= Len(b) /\ SubSeq(b, 1, Len(a)) = a

\* C7: as long as a session stays in the table its speakers keep their labels
\* (the registered speakers only grow at the end) and its capacity; a session
\* leaves the table only by a sweep that finds it expired; and a segment whose
\* embedding is within threshold of a registered speaker gets the label of such
\* a speaker and registers nothing.
C7_LabelsStableWhileLive ==
    [][ /\ \A k \in DOMAIN sessions :
             IF k \in DOMAIN sessions'
             THEN /\ IsPrefix(sessions[k].manager.speakers,
                              sessions'[k].manager.speakers)
                  /\ sessions'[k].manager.max_speakers = sessions[k].manager.max_speakers
             ELSE \E r \in Requests :
                     /\ SweepStep(r)
                     /\ now_ms[r] - sessions[k].last_seen_ms > config.session_ttl_ms
        /\ \A r \in Requests :
             ResolveStep(r) =>
                 LET m == sessions[req[r].session_id].manager
                     within == { i \in 1..Len(m.speakers) :
                                   Similarity(m.speakers[i], embedding[r])
                                       >= req[r].threshold }
                 IN  within # {} =>
                        /\ sessions'[req[r].session_id].manager = m
                        /\ warnings'[r] = warnings[r]
                        /\ Len(tracks'[r]) = Len(tracks[r]) + 1
                        /\ \E i \in within :
                              tracks'[r][Len(tracks'[r])].speaker_id = FormatSpeakerId(i)
      ]_vars

\* both segments of a request got label 2 on a session whose label 1 is from
\* an earlier request
C7_Witness ==
    /\ pc[1] = "loop"
    /\ warnings[1] = <<>>
    /\ Len(tracks[1]) = 2
    /\ tracks[1][1].speaker_id = FormatSpeakerId(2)
    /\ tracks[1][2].speaker_id = FormatSpeakerId(2)
    /\ Len(sessions[req[1].session_id].manager.speakers) = 2

\* C8: no track a request holds or answers with carries speaker label 0; a
\* resolution that yields 0 adds no track and exactly one warning, any other
\* adds its track and no warning, and either way the request goes on.
C8_NoSentinelTrack ==
    /\ [](\A r \in Requests : \A t \in TracksOf(r) :
             t.speaker_id # FormatSpeakerId(0))
    /\ [][ \A r \in Requests :
             ResolveStep(r) =>
                 /\ response'[r] = NoResponse
                 /\ \E o \in ResolveOutcomes(sessions[req[r].session_id].manager,
                                             embedding[r], req[r].threshold) :
                       IF o.speaker_id = 0
                       THEN /\ tracks'[r] = tracks[r]
                            /\ warnings'[r] = Append(warnings[r], DroppedWarning)
                       ELSE /\ warnings'[r] = warnings[r]
                            /\ tracks'[r] = Append(tracks[r],
                                  map_segment_to_track(segment[r],
                                      req[r].window_start_ms, req[r].window_end_ms,
                                      o.speaker_id))
         ]_vars

\* a request succeeded with one segment dropped for label 0 and one track
C8_Witness ==
    /\ response[1].status = 200
    /\ response[1].warnings = <<DroppedWarning>>
    /\ Len(response[1].tracks) = 1

\* C9: a failing embedding computation ends the request with the one internal
\* error, which carries neither tracks nor warnings; the request's locals and
\* its iterator are dropped, so no further segment is processed; and the
\* session table stays as the earlier segments left it.
C9_EmbeddingFailureAborts ==
    /\ [][ \A r \in Requests :
             (pc[r] = "compute" /\ pc'[r] # "read_clock") =>
                 /\ pc'[r] = "done"
                 /\ response'[r] = internal("embedding failed")
                 /\ DOMAIN response'[r] = {"status", "detail"}
                 /\ sessions' = sessions
         ]_vars
    /\ [](\A r \in Requests :
             response[r].status = 500 =>
                 /\ pc[r] = "done"
                 /\ segs_left[r] = 0
                 /\ ~ENABLED NextSegment(r, SegmentResults))

\* an embedding failure has been answered while the table holds a session with
\* a registered speaker
C9_Witness ==
    /\ pc[1] = "done"
    /\ response[1] = internal("embedding failed")
    /\ \E k \in DOMAIN sessions : sessions[k].manager.speakers # <<>>

\* C10: an element of the segmentation sequence never ends the request: an
\* erroneous one adds exactly one warning and leaves the tracks, the response
\* and the session table alone, and the loop goes on with the next element;
\* the request ends from the loop only when the sequence is exhausted, with a
\* success that carries every warning and the stitched tracks.
C10_ElementErrorIsAWarning ==
    [][ \A r \in Requests :
          /\ (pc[r] = "loop" /\ segs_left[r] > 0 /\ pc'[r] # "loop") =>
                pc'[r] = "lock_extractor"
          /\ (pc[r] = "loop" /\ pc'[r] = "loop" /\ warnings'[r] # warnings[r]) =>
                /\ warnings'[r] = Append(warnings[r], SkippedWarning)
                /\ segs_left'[r] = segs_left[r] - 1
                /\ tracks'[r] = tracks[r]
                /\ response'[r] = response[r]
                /\ sessions' = sessions
          /\ (pc[r] = "loop" /\ pc'[r] = "done") =>
                /\ segs_left[r] = 0
                /\ response'[r].status = 200
                /\ response'[r].warnings = warnings[r]
                /\ response'[r].tracks = merge_adjacent_tracks(tracks[r])
      ]_vars

\* a request succeeded with one erroneous element and one track
C10_Witness ==
    /\ response[1].status = 200
    /\ response[1].warnings = <<SkippedWarning>>
    /\ Len(response[1].tracks) = 1

\* the body of request 2 fails one of the checks the handler makes of it
EmptySessionId(body) == \A i \in 1..Len(body.session_id) : body.session_id[i] = " "
ZeroSampleRate(body) == body.sample_rate = Some(0)
BadPayload(body) ==
    \/ ~body.content_b64.valid
    \/ body.content_b64.bytes = 0
    \/ body.content_b64.bytes % 2 = 1
InvertedWindow(body) ==
    body.start_end_ms # None /\ body.start_end_ms[1][2] < body.start_end_ms[1][1]
InvalidBody(body) ==
    EmptySessionId(body) \/ ZeroSampleRate(body) \/ BadPayload(body) \/ InvertedWindow(body)

\* request 2 arrives
ArrivalStep == pc[2] = "idle" /\ pc'[2] # "idle"

\* C11: a request whose body fails validation is answered with a client error
\* by the step that takes it in, whatever its segmentation would have given;
\* that step and every client-error answer leave the session table and both
\* locks as they were, and the request never holds a lock or reaches the loop.
C11_InvalidRequestTouchesNothing ==
    /\ [][ ArrivalStep =>
             /\ InvalidBody(pure.body) =>
                   /\ pc'[2] = "done"
                   /\ response'[2].status = 400
             /\ response'[2].status = 400 =>
                   /\ pc'[2] = "done"
                   /\ sessions' = sessions
                   /\ extractor' = extractor
                   /\ sessions_lock' = sessions_lock
         ]_vars
    /\ []( (pure.fn = "validate" /\ InvalidBody(pure.body)) =>
             /\ pc[2] \in {"idle", "done"}
             /\ extractor # 2
             /\ sessions_lock # 2 )

\* request 2 was turned down for its window while request 1 holds the
\* extractor and the table holds a session
C11_Witness ==
    /\ pc[2] = "done"
    /\ response[2] = bad_request("start_end_ms must be [start,end] and end >= start")
    /\ pure.segments = None
    /\ extractor = 1
    /\ DOMAIN sessions # {}

\* C12: a request holds the extractor lock only while it computes an
\* embedding and the session-table lock only from the sweep to the resolution,
\* so never both; it asks for the session table only after it gave up the
\* extractor; and a request that waits for the session table waits for a
\* request that is inside the table, never for one that computes.
C12_LocksNeverNested ==
    \A r \in Requests :
        /\ ~(extractor = r /\ sessions_lock = r)
        /\ extractor = r => pc[r] = "compute"
        /\ sessions_lock = r => pc[r] \in {"retain", "entry", "resolve"}
        /\ pc[r] = "lock_sessions" =>
              /\ extractor # r
              /\ ENABLED LockSessions(r) \/
                    \E q \in Requests \ {r} :
                        /\ sessions_lock = q
                        /\ pc[q] \in {"retain", "entry", "resolve"}
                        /\ extractor # q

\* request 1 takes the session table while request 2 computes an embedding
C12_Witness ==
    /\ pc[1] = "retain"
    /\ sessions_lock = 1
    /\ pc[2] = "compute"
    /\ extractor = 2

\* C13: stitching the result of a stitching gives that result again, track by
\* track and in the same order.
C13_MergeIdempotent ==
    (pure.fn = "merge" /\ pure.again # None) =>
        /\ Len(pure.again[1]) = Len(pure.out[1])
        /\ \A i \in 1..Len(pure.out[1]) : pure.again[1][i] = pure.out[1][i]

\* a list given out of order, stitched to two tracks of which one is a merge
\* and which tie on (start_ms, end_ms), and stitched again
C13_Witness ==
    /\ pure.fn = "merge"
    /\ pure.again # None
    /\ Len(pure.input) = 3
    /\ Len(pure.out[1]) = 2
    /\ pure.input[1].start_ms > pure.input[3].start_ms
    /\ pure.out[1][1].start_ms = pure.out[1][2].start_ms
    /\ pure.out[1][1].end_ms = pure.out[1][2].end_ms

\* C14: two tracks of one speaker, in either order.  With the earlier one the
\* one that sorts first by (start_ms, end_ms): when the later one starts at
\* most 250 ms behind the earlier one's end (or before it), the result is one
\* track from the smaller start to the larger end with its duration
\* recomputed; otherwise the result is the two tracks, unchanged, in time
\* order.
C14_TwoTracksOfOneSpeaker ==
    ( /\ pure.fn = "merge"
      /\ pure.out # None
      /\ Len(pure.input) = 2
      /\ pure.input[1].speaker_id = pure.input[2].speaker_id ) =>
        LET x == pure.input[1]
            y == pure.input[2]
            xFirst == \/ x.start_ms < y.start_ms
                      \/ x.start_ms = y.start_ms /\ x.end_ms <= y.end_ms
            a == IF xFirst THEN x ELSE y
            b == IF xFirst THEN y ELSE x
            out == pure.out[1]
        IN  IF b.start_ms - a.end_ms <= 250
            THEN /\ Len(out) = 1
                 /\ out[1].speaker_id = a.speaker_id
                 /\ out[1].start_ms = Min(a.start_ms, b.start_ms)
                 /\ out[1].end_ms = Max(a.end_ms, b.end_ms)
                 /\ out[1].duration_ms = out[1].end_ms - out[1].start_ms
            ELSE out = <<a, b>>

\* the later track came first and starts exactly 250 ms behind the other's
\* end: one track
C14_Witness ==
    /\ pure.fn = "merge"
    /\ pure.out # None
    /\ Len(pure.input) = 2
    /\ pure.input[1].speaker_id = pure.input[2].speaker_id
    /\ pure.input[1].start_ms - pure.input[2].end_ms = 250
    /\ Len(pure.out[1]) = 1
    /\ pure.out[1][1].duration_ms = pure.input[1].end_ms - pure.input[2].start_ms

WindowError == bad_request("start_end_ms must be [start,end] and end >= start")

\* request 2 arrives with a body that passes every check but that of its
\* window, and its segmentation succeeds
WindowDecides ==
    /\ ArrivalStep
    /\ ~EmptySessionId(pure.body)
    /\ ~ZeroSampleRate(pure.body)
    /\ ~BadPayload(pure.body)
    /\ pure.segments # None

\* the handler goes on with window [ws, we]
WindowIs(ws, we) ==
    /\ pc'[2] = "loop"
    /\ req'[2].window_start_ms = ws
    /\ req'[2].window_end_ms = we

\* the window of a request without start_end_ms: from 0 to the duration of the
\* payload
DefaultWindow ==
    WindowIs(0, window_duration(pure.body.content_b64.bytes \div 2,
                                unwrap_or(pure.body.sample_rate, default_sample_rate)))

\* the handler turns the request down for its window
WindowRejected == pc'[2] = "done" /\ response'[2] = WindowError

\* C15 as stated: [start, end] is the window whenever end >= start, the
\* request is rejected for its window exactly when end < start, and without
\* start_end_ms the window is [0, computed duration].
C15_Original ==
    [][ WindowDecides =>
          IF pure.body.start_end_ms = None
          THEN DefaultWindow
          ELSE LET start == pure.body.start_end_ms[1][1]
                   end == pure.body.start_end_ms[1][2]
               IN  IF end >= start THEN WindowIs(start, end) ELSE WindowRejected
      ]_vars

\* C15 amended: [start, end] is the window whenever start >= 0 and end >=
\* start, the request is rejected for its window exactly when start < 0 or
\* end < start, and without start_end_ms the window is [0, computed duration].
C15_WindowBounds ==
    [][ WindowDecides =>
          IF pure.body.start_end_ms = None
          THEN DefaultWindow
          ELSE LET start == pure.body.start_end_ms[1][1]
                   end == pure.body.start_end_ms[1][2]
               IN  IF start >= 0 /\ end >= start
                   THEN WindowIs(start, end)
                   ELSE WindowRejected
      ]_vars

\* a window with end >= start and start < 0 was turned down
C15_Witness ==
    /\ pure.fn = "validate"
    /\ pure.segments # None
    /\ pure.body.start_end_ms # None
    /\ pure.body.start_end_ms[1][1] < 0
    /\ pure.body.start_end_ms[1][2] >= pure.body.start_end_ms[1][1]
    /\ pc[2] = "done"
    /\ response[2] = WindowError

C17_NoMergeableTracksLeft ==
    (pure.fn = "merge" /\ pure.out # None) =>
        \A i \in 1..Len(pure.out[1]) : \A j \in (i + 1)..Len(pure.out[1]) :
            pure.out[1][i].speaker_id = pure.out[1][j].speaker_id =>
                pure.out[1][j].start_ms - pure.out[1][i].end_ms > 250

\* C18: under any interleaving of requests the last_seen_ms of a session in
\* the table never decreases.
C18_LastSeenNeverDecreases ==
    [][ \A k \in DOMAIN sessions :
          k \in DOMAIN sessions' =>
              sessions'[k].last_seen_ms >= sessions[k].last_seen_ms ]_vars

\* request r is inside the handler
Running(r) == pc[r] \notin {"idle", "done"}

\* some step of the handler of request r can be taken
CanStep(r) ==
    \/ ENABLED NextSegment(r, ConcSegmentResults)
    \/ ENABLED LockExtractor(r)
    \/ ENABLED Compute(r, ConcEmbeddings)
    \/ ENABLED ReadClock(r)
    \/ ENABLED LockSessions(r)
    \/ ENABLED Retain(r)
    \/ ENABLED Entry(r)
    \/ ENABLED Resolve(r)
    \/ ENABLED Finish(r)

\* C19: with concurrent requests, finite segmentation sequences and fair
\* locks, whenever a request is inside the handler some request can take a
\* step (no deadlock on the two locks), a lock is held only by a request that
\* can take a step, and every request inside the handler eventually returns
\* a success or an error.
C19_EveryRequestReturns ==
    /\ []( /\ (\E r \in Requests : Running(r)) => \E q \in Requests : CanStep(q)
           /\ \A r \in Requests :
                 (extractor = r \/ sessions_lock = r) => CanStep(r) )
    /\ \A r \in Requests :
          Running(r) ~> (pc[r] = "done" /\ response[r].status \in {200, 500})

\* both requests have returned, one with a success, one with an error, each
\* having taken a segment through both locks
C19_Witness ==
    /\ pc[1] = "done"
    /\ pc[2] = "done"
    /\ response[1].status = 200
    /\ Len(response[1].tracks) = 1
    /\ response[2] = internal("embedding failed")
    /\ DOMAIN sessions = { <<"a">>, <<"b">> }

\* C20: the lookup of a session that is in the table leaves its capacity and
\* its registered speakers as they are, whatever max_speakers the request
\* carries; a session that is not in the table is created with the request's
\* max_speakers, or the server's default without one; and the capacity under a
\* key changes by no step that keeps the session, so only by a sweep that
\* drops the expired session and a creation after it.
C20_CapacityFixedAtCreation ==
    [][ /\ \A r \in Requests :
             EntryStep(r) =>
                 LET k == req[r].session_id
                 IN  IF k \in DOMAIN sessions
                     THEN sessions'[k].manager = sessions[k].manager
                     ELSE sessions'[k].manager =
                              [ max_speakers |-> IF req[r].max_speakers = None
                                                 THEN config.max_speakers
                                                 ELSE req[r].max_speakers[1],
                                speakers |-> <<>> ]
        /\ \A k \in DOMAIN sessions :
             IF k \in DOMAIN sessions'
             THEN sessions'[k].manager.max_speakers = sessions[k].manager.max_speakers
             ELSE \E r \in Requests :
                     /\ SweepStep(r)
                     /\ now_ms[r] - sessions[k].last_seen_ms > config.session_ttl_ms
      ]_vars

\* a request with max_speakers 1 has looked up a live session of capacity 8
\* that holds two speakers
C20_Witness ==
    /\ pc[1] = "resolve"
    /\ req[1].max_speakers = Some(1)
    /\ sessions[req[1].session_id].manager.max_speakers = default_max_speakers
    /\ Len(sessions[req[1].session_id].manager.speakers) = 2

=============================================================================
